---------------------------- MODULE Spec2Model ----------------------------
(***************************************************************************)
(* Classification engine of extra-forever: the two scoring strategies      *)
(* (app/services/classification/strategies.py), the orchestrator           *)
(* ClassificationService (app/services/classification/                     *)
(* classification_service.py) and the message_categories table it writes   *)
(* through a SQLAlchemy session on SQLite (models.py, managers).           *)
(*                                                                         *)
(* Numbers.  A score is a real number kept exactly as the signed square    *)
(* of its value: [nan, sq, den] stands for sign(sq) * sqrt(|sq| / den).    *)
(* The signed square is strictly increasing, so every comparison the code  *)
(* makes on floats is made here on the exact value.  A threshold or an LLM *)
(* confidence is given in tenths.  An embedding is a tuple of integers;    *)
(* the empty tuple stands for both None and [] (each is falsy in Python).  *)
(***************************************************************************)
EXTENDS Integers, Sequences, FiniteSets, TLC

\* ------------------------------------------------------------------ bounds
MaxCats == 2          \* categories stored / length of a category list
MaxDecisions == 2     \* decisions in one LLM response

\* --------------------------------------------------------------- universes
MsgIds == {"m1", "m2"}
CatIds == 1..MaxCats
NoEmbedding == <<>>
MsgVectors == {<<1, 0>>, <<1, 1>>, <<0, 0>>}
CatVectors == {<<1, 0>>, <<0, 1>>, <<1, 1>>, <<0, 0>>}
Thresholds == {0, 5, 8}
TopNs == (0 - 1)..(MaxCats + 1)
Confidences == {4, 9}
Explanations == {<<>>, <<"why">>}   \* "" and a text
LLMThresholds == {0, 5}

\* ----------------------------------------------------------------- numbers
Abs(x) == IF x < 0 THEN 0 - x ELSE x

RECURSIVE GCD(_, _)
GCD(a, b) == IF b = 0 THEN a ELSE GCD(b, a % b)

NaN == [nan |-> TRUE, sq |-> 0, den |-> 1]

\* the canonical form of sign(sq) * sqrt(|sq| / den), den > 0
Real(sq, den) ==
    LET g == GCD(Abs(sq), den)
    IN  [nan |-> FALSE, sq |-> sq \div g, den |-> den \div g]

\* a float given in tenths (a threshold, an LLM confidence)
Tenths(t) == Real(t * Abs(t), 100)

\* Python's a >= b on floats: False as soon as one side is NaN
GE(a, b) == ~a.nan /\ ~b.nan /\ a.sq * b.den >= b.sq * a.den

\* Python's a < b on floats
LT(a, b) == ~a.nan /\ ~b.nan /\ a.sq * b.den < b.sq * a.den

RECURSIVE DotFrom(_, _, _)
DotFrom(u, v, i) ==
    IF i > Len(u) THEN 0 ELSE u[i] * v[i] + DotFrom(u, v, i + 1)

Dot(u, v) == DotFrom(u, v, 1)

\* ------------------------------------------------------------- formatting
\* the integer k nearest to 10^4 * sqrt(sq / den), 0 <= sq <= den: the digits
\* that f"{score:.4f}" prints for a score in [0, 1]
RECURSIVE Nearest4(_, _, _, _)
Nearest4(sq, den, lo, hi) ==
    IF lo = hi THEN lo
    ELSE LET mid == (lo + hi + 1) \div 2
         IN  IF (2 * mid - 1) * (2 * mid - 1) * den <= 4 * 10000 * 10000 * sq
             THEN Nearest4(sq, den, mid, hi)
             ELSE Nearest4(sq, den, lo, mid - 1)

\* f"{score:.4f}" (strategies.py:104), as the string of the count of 1e-4 units
Format4f(score) ==
    IF score.nan THEN "nan"
    ELSE IF score.sq < 0
         THEN "-" \o ToString(Nearest4(0 - score.sq, score.den, 0, 10000))
         ELSE ToString(Nearest4(score.sq, score.den, 0, 10000))

\* f"{threshold:.2f}" (strategies.py:103), threshold in tenths, as hundredths
Format2f(threshold) == ToString(threshold * 10)

\* ------------------------------------------------------------ the records
\* models.Category: id, name, embedding (the description only feeds the prompt)
Category(id, embedding) ==
    [id |-> id, name |-> "c" \o ToString(id), embedding |-> embedding]

\* models.Message: id and embedding (the text fields only feed the prompt)
Message(id, embedding) == [id |-> id, embedding |-> embedding]

ClassificationMatch(category, score, explanation) ==
    [category |-> category, score |-> score, explanation |-> explanation]

\* the outcome of a call: a returned match list, or a raised exception
Return(matches) == [ok |-> TRUE, matches |-> matches, error |-> "", about |-> ""]

\* ValueError, named by what its text says; about = the id the text names
Raise(error, about) == [ok |-> FALSE, matches |-> <<>>, error |-> error, about |-> about]

\* Python truthiness of an embedding column: None and [] are falsy
Truthy(embedding) == Len(embedding) > 0

RECURSIVE SelectSeq2(_, _)
SelectSeq2(s, keep) ==
    IF s = <<>> THEN <<>>
    ELSE IF keep[1] THEN <<s[1]>> \o SelectSeq2(Tail(s), Tail(keep))
         ELSE SelectSeq2(Tail(s), Tail(keep))

\* [cat for cat in categories if cat.embedding]
WithEmbeddings(categories) ==
    SelectSeq2(categories, [i \in 1..Len(categories) |-> Truthy(categories[i].embedding)])

\* a slice that keeps the order
Reverse_kept(s) == s

\* sorted_indices[::-1]
Reverse(s) == [i \in 1..Len(s) |-> s[Len(s) + 1 - i]]

\* ------------------------------------------------- embedding similarity
\* (cat / ||cat||) . (msg / ||msg||): 0/0 = nan as soon as one norm is zero
Cosine(u, v) ==
    LET d == Dot(u, v)
        n == Dot(u, u) * Dot(v, v)
    IN  IF n = 0 THEN NaN ELSE Real(d * Abs(d), n)

\* np.argsort(similarities): ascending, nan last.  The default kind is not a
\* stable sort: which of two equal keys comes first depends on the build
\* (kind = "stable-asc": the earlier index first; "unstable": the later first).
ArgsortBefore(sims, i, j, kind) ==
    \/ LT(sims[i], sims[j])
    \/ ~sims[i].nan /\ sims[j].nan
    \/ /\ ~LT(sims[j], sims[i])
       /\ sims[i].nan = sims[j].nan
       /\ IF kind = "stable-asc" THEN i < j ELSE i > j

RECURSIVE ArgsortFrom(_, _, _)
ArgsortFrom(sims, rest, kind) ==
    IF rest = {} THEN <<>>
    ELSE LET first == CHOOSE i \in rest :
                        \A j \in rest \ {i} : ArgsortBefore(sims, i, j, kind)
         IN  <<first>> \o ArgsortFrom(sims, rest \ {first}, kind)

Argsort(sims, kind) == ArgsortFrom(sims, 1..Len(sims), kind)

\* the explanation template of strategies.py:102-105
EmbeddingExplanation(message, threshold, category, score) ==
    <<"Message", message.id, "embeddings exceed", Format2f(threshold),
      "similarity threshold for category", category.name,
      "with score", Format4f(score)>>

\* the loop of strategies.py:98-108 over sorted_indices
RECURSIVE EmbeddingLoop(_, _, _, _, _, _, _)
EmbeddingLoop(message, cats, sims, order, top_n, threshold, matches) ==
    IF order = <<>> THEN matches
    ELSE LET idx == order[1]
             hit == GE(sims[idx], Tenths(threshold)) /\ Len(matches) < top_n
             m   == ClassificationMatch(cats[idx], sims[idx],
                        EmbeddingExplanation(message, threshold, cats[idx], sims[idx]))
         IN  EmbeddingLoop(message, cats, sims, Tail(order), top_n, threshold,
                           IF hit THEN Append(matches, m) ELSE matches)

\* EmbeddingSimilarityStrategy.classify
EmbeddingSimilarityStrategy_classify(message, categories, top_n, threshold, kind) ==
    IF ~Truthy(message.embedding)
    THEN Raise("MissingEmbedding", message.id)
    ELSE LET cats == WithEmbeddings(categories)
         IN  IF cats = <<>> THEN Return(<<>>)
             ELSE LET sims  == [i \in 1..Len(cats) |->
                                   Cosine(cats[i].embedding, message.embedding)]
                      order == Reverse(Argsort(sims, kind))
                  IN  Return(EmbeddingLoop(message, cats, sims, order,
                                           top_n, threshold, <<>>))

\* ------------------------------------------------------------ LLM batch
\* CategoryMatchOutput: one decision of the provider's response
CategoryMatchOutput(category_index, is_in_category, explanation, confidence) ==
    [category_index |-> category_index, is_in_category |-> is_in_category,
     explanation |-> explanation, confidence |-> confidence]

\* what self._agent.run_sync(prompt) gives: an exception of the provider or of
\* the output validation, or a MultiCategoryMatchOutput
AgentFailure(error) == [error |-> error, matches |-> <<>>]
MultiCategoryMatchOutput(matches) == [error |-> "", matches |-> matches]

\* the filter without its is_in_category test
LLMKeeps_any_flag(o, categories, threshold) ==
    /\ GE(Tenths(o.confidence), Tenths(threshold))
    /\ 0 <= o.category_index
    /\ o.category_index < Len(categories)

\* the filter without its confidence test
LLMKeeps_any_confidence(o, categories, threshold) ==
    /\ o.is_in_category
    /\ 0 <= o.category_index
    /\ o.category_index < Len(categories)

\* the condition of strategies.py:206-210 on one decision
LLMKeeps(o, categories, threshold) ==
    /\ o.is_in_category
    /\ GE(Tenths(o.confidence), Tenths(threshold))
    /\ 0 <= o.category_index
    /\ o.category_index < Len(categories)

\* the filter loop of strategies.py:203-218
RECURSIVE LLMFilter(_, _, _)
LLMFilter(outputs, categories, threshold) ==
    IF outputs = <<>> THEN <<>>
    ELSE IF LLMKeeps(outputs[1], categories, threshold)
    THEN <<ClassificationMatch(categories[outputs[1].category_index + 1],
                               Tenths(outputs[1].confidence),
                               outputs[1].explanation)>>
         \o LLMFilter(Tail(outputs), categories, threshold)
    ELSE LLMFilter(Tail(outputs), categories, threshold)

\* list.sort(key=score, reverse=True): stable, equal scores keep their order
\* a sort that keeps the order of arrival
InsertDescending_arrival(sorted, m) == Append(sorted, m)

RECURSIVE InsertDescending(_, _)
InsertDescending(sorted, m) ==
    IF sorted = <<>> THEN <<m>>
    ELSE IF LT(sorted[1].score, m.score)
         THEN <<m>> \o sorted
         ELSE <<sorted[1]>> \o InsertDescending(Tail(sorted), m)

RECURSIVE SortDescending(_, _)
SortDescending(matches, sorted) ==
    IF matches = <<>> THEN sorted
    ELSE SortDescending(Tail(matches), InsertDescending(sorted, matches[1]))

\* a slice that keeps the end of the list
SliceTo_end(s, n) ==
    IF n >= 0 /\ n < Len(s) THEN SubSeq(s, Len(s) - n + 1, Len(s)) ELSE s

\* a slice that cuts nothing
SliceTo_whole(s, n) == s

\* Python's s[:n]: a negative n counts from the end
SliceTo(s, n) ==
    LET stop == IF n >= 0 THEN (IF n < Len(s) THEN n ELSE Len(s))
                ELSE (IF Len(s) + n > 0 THEN Len(s) + n ELSE 0)
    IN  SubSeq(s, 1, stop)

\* LLMClassificationStrategy.classify, output = what the agent call gives
LLMClassificationStrategy_classify(message, categories, top_n, threshold, output) ==
    IF categories = <<>> THEN Return(<<>>)
    ELSE IF output.error # "" THEN Raise(output.error, "")
    ELSE Return(SliceTo(SortDescending(
                    LLMFilter(output.matches, categories, threshold), <<>>), top_n))

\* a classify that calls the provider whatever the list
LLMIssuesRequest_always(categories) == TRUE

\* whether classify reaches self._agent.run_sync (strategies.py:189-199)
LLMIssuesRequest(categories) == categories # <<>>

\* ------------------------------------------------------------- the state
Sessions == {"s1", "s2"}
Writers == {"s1"}        \* sessions that run classify_message_by_id
Readers == {"s2"}        \* sessions that only read

VARIABLES
    messages,            \* table messages: id -> [exists, embedding]
    categories_table,          \* table categories: id -> [exists, embedding]
    message_categories,  \* table message_categories, committed rows
    txn,                 \* per session: the open write transaction's view
    identity,            \* per session: Message.message_categories as loaded
    pc,                  \* per session: where its classify call stands
    frame,               \* per session: the locals of its classify call
    outcome,             \* per session: what the call returned or raised
    argsort_kind,        \* the build's order of equal keys in np.argsort
    call,                \* direct use of a strategy: the arguments of classify
    agent,               \* direct use: what the agent call gives
    ret,                 \* direct use: what classify returned or raised
    requests,            \* requests issued to the provider
    batch                \* a caller that makes several calls: where it stands

vars == <<messages, categories_table, message_categories, txn, identity, pc, frame,
          outcome, argsort_kind, call, agent, ret, requests, batch>>

dbVars == <<messages, categories_table, message_categories, txn, identity, pc, frame,
            outcome>>

directVars == <<call, agent, ret, requests>>

\* ------------------------------------------------------------- the tables
\* a row of message_categories (models.MessageCategory); classified_at is a
\* wall-clock reading no code path reads back, and is left out
MessageCategory(message_id, category_id, score, explanation) ==
    [message_id |-> message_id, category_id |-> category_id,
     score |-> score, explanation |-> explanation]

RowsOf(rows, message_id) == {r \in rows : r.message_id = message_id}

HasKey(rows, message_id, category_id) ==
    \E r \in rows : r.message_id = message_id /\ r.category_id = category_id

\* the rows a session's statements see: its own transaction's, else the
\* committed ones (SQLite shows a connection no other connection's writes)
View(s) == IF txn[s].active THEN txn[s].rows ELSE message_categories

NoTxn == [active |-> FALSE, rows |-> {}]
Unloaded == [loaded |-> FALSE, rows |-> {}]

\* a lookup that finds a message under every id
get_by_id_found(message_id) ==
    [exists |-> TRUE, id |-> message_id, embedding |-> NoEmbedding]

\* MessageManager.get_by_id: the message, or None (exists = FALSE)
get_by_id(message_id) ==
    IF message_id \in DOMAIN messages /\ messages[message_id].exists
    THEN [exists |-> TRUE, id |-> message_id, embedding |-> messages[message_id].embedding]
    ELSE [exists |-> FALSE, id |-> message_id, embedding |-> NoEmbedding]

RECURSIVE CategoriesFrom(_)
CategoriesFrom(id) ==
    IF id > MaxCats THEN <<>>
    ELSE IF categories_table[id].exists
         THEN <<Category(id, categories_table[id].embedding)>> \o CategoriesFrom(id + 1)
         ELSE CategoriesFrom(id + 1)

\* CategoryManager.get_all: every stored category, in id order
get_all == CategoriesFrom(1)

\* ------------------------------------------------------- the provider
Decisions(n, explanations) ==
    {CategoryMatchOutput(i, b, e, c) :
        i \in (0 - 1)..n, b \in BOOLEAN, e \in explanations, c \in Confidences}

\* what one agent call can give for n submitted categories
AgentOutputs(n, explanations) ==
    {AgentFailure("ProviderError"), AgentFailure("ValidationError")}
    \cup {MultiCategoryMatchOutput(ds) :
            ds \in UNION {[1..k -> Decisions(n, explanations)] : k \in 0..MaxDecisions}}

\* ----------------------------------------------------- the orchestrator
NoOutput == MultiCategoryMatchOutput(<<>>)

ServiceExplanations == {<<"why">>}
ServiceTopNs == {1, 2}
ServiceThresholds == {5}

RECURSIVE Placeholders(_)
Placeholders(n) ==
    IF n = 0 THEN <<>> ELSE Append(Placeholders(n - 1), Category(n, NoEmbedding))

\* every result the LLM strategy can give for n categories, worked out once on
\* n placeholder categories (the strategy reads no field of a category)
LLMResultsFor(n) ==
    {[n |-> n, top_n |-> t, threshold |-> th,
      result |-> LLMClassificationStrategy_classify(Message("", NoEmbedding),
                     Placeholders(n), t, th, output)] :
        t \in ServiceTopNs, th \in ServiceThresholds,
        output \in AgentOutputs(n, ServiceExplanations)}

LLMResults == {x : x \in UNION {LLMResultsFor(n) : n \in 1..MaxCats}}

\* the result on the placeholders, with the categories that were passed
Rebind(result, cats) ==
    [result EXCEPT !.matches =
        [i \in 1..Len(result.matches) |->
            [result.matches[i] EXCEPT !.category = cats[result.matches[i].category.id]]]]

\* self.strategy.classify(message, cats, top_n, threshold): what it can give
StrategyClassify(strategy, message, cats, top_n, threshold) ==
    IF strategy = "embedding"
    THEN {EmbeddingSimilarityStrategy_classify(message, cats, top_n, threshold,
                                               argsort_kind)}
    ELSE IF cats = <<>>
    THEN {LLMClassificationStrategy_classify(message, cats, top_n, threshold, NoOutput)}
    ELSE {Rebind(x.result, cats) :
            x \in {y \in LLMResults : /\ y.n = Len(cats)
                                       /\ y.top_n = top_n
                                       /\ y.threshold = threshold}}

\* classify_message with the strategy's exception caught and an empty result
\* returned in its place
classify_message_suppressing(message, cats, strategy_result) ==
    IF ~Truthy(message.embedding)
    THEN Raise("MissingEmbedding", message.id)
    ELSE IF WithEmbeddings(cats) = <<>>
    THEN Raise("NoScoreableCategories", "")
    ELSE IF strategy_result.ok THEN strategy_result ELSE Return(<<>>)

\* classify_message without the checks of lines 83-91
classify_message_unchecked(message, cats, strategy_result) == strategy_result

\* ClassificationService.classify_message up to the persist step, lines 83-109;
\* strategy_result is what the call of line 99 gives
classify_message(message, cats, strategy_result) ==
    IF ~Truthy(message.embedding)
    THEN Raise("MissingEmbedding", message.id)
    ELSE IF WithEmbeddings(cats) = <<>>
    THEN Raise("NoScoreableCategories", "")
    ELSE strategy_result

\* whether classify_message reaches line 99, the call of the strategy
ReachesStrategy(message, cats) ==
    Truthy(message.embedding) /\ WithEmbeddings(cats) # <<>>

\* a persist step that runs whatever assign is
Persists_always(assign) == TRUE

\* line 116: whether the persist step runs
Persists(assign) == assign

\* the tuples handed to _assign_categories, lines 119-125, as pending rows
RECURSIVE NewRows(_, _)
NewRows(message_id, matches) ==
    IF matches = <<>> THEN <<>>
    ELSE <<MessageCategory(message_id, matches[1].category.id,
                           matches[1].score, matches[1].explanation)>>
         \o NewRows(message_id, Tail(matches))

\* the set of rows the loop of lines 189-197 adds for the matches
AddedRows(message_id, matches) ==
    {NewRows(message_id, matches)[i] : i \in 1..Len(matches)}

\* a persist step that deletes nothing
MarkedDeleted_none(loaded) == {}

\* _assign_categories lines 185-186: the rows handed to session.delete
MarkedDeleted(loaded) == loaded

BlankFrame ==
    [message_id |-> "", assign |-> FALSE, strategy |-> "", top_n |-> 0,
     threshold |-> 0, message |-> [exists |-> FALSE, id |-> "", embedding |-> NoEmbedding],
     matches |-> <<>>, invoked |-> 0, raised |-> "", deleted |-> {}, added |-> <<>>]

NoOutcome == Return(<<>>)

\* ------------------------------------------------- the session's flush
Key(r) == <<r.message_id, r.category_id>>
Keys(rows) == {Key(r) : r \in rows}

\* Session.flush, first half: the pending objects.  A pending object whose
\* key is that of an object marked deleted is a row switch, written as an
\* UPDATE; any other is an INSERT, which the primary key refuses when a row
\* with that key is there.  An UPDATE that matches no row is a StaleDataError.
RECURSIVE SaveRows(_, _, _)
SaveRows(rows, switchable, added) ==
    IF added = <<>> THEN [error |-> "", rows |-> rows]
    ELSE LET a == added[1]
         IN  IF Key(a) \in switchable
             THEN IF HasKey(rows, a.message_id, a.category_id)
                  THEN SaveRows({r \in rows : Key(r) # Key(a)} \cup {a},
                                switchable \ {Key(a)}, Tail(added))
                  ELSE [error |-> "StaleDataError", rows |-> rows]
             ELSE IF HasKey(rows, a.message_id, a.category_id)
                  THEN [error |-> "IntegrityError", rows |-> rows]
                  ELSE SaveRows(rows \cup {a}, switchable, Tail(added))

\* a flush that leaves in the table only the rows it wrote
DeleteRows_table(rows, deleted, added) ==
    {r \in rows : Key(r) \in Keys({added[i] : i \in 1..Len(added)})}

\* a flush that deletes every row marked deleted, also one written anew
DeleteRows_all(rows, deleted, added) ==
    {r \in rows : ~(Key(r) \in Keys(deleted))}

\* Session.flush, second half: DELETE for the objects still marked deleted
DeleteRows(rows, deleted, added) ==
    {r \in rows : ~(Key(r) \in Keys(deleted) \ Keys({added[i] : i \in 1..Len(added)}))}

\* a read that sees the rows of a transaction another session has open
ReaderView_dirty(s) ==
    IF \E t \in Sessions : txn[t].active
    THEN txn[CHOOSE t \in Sessions : txn[t].active].rows
    ELSE message_categories

\* what a statement of session s reads from message_categories
ReaderView(s) == View(s)

\* ------------------------------------------------------------- the steps
InCall == {"fetched", "assigning", "flush_save", "flush_delete", "commit"}

\* a relationship that loads the rows of every message
Load_all(s, message_id) ==
    IF identity[s][message_id].loaded THEN identity[s]
    ELSE [identity[s] EXCEPT ![message_id] = [loaded |-> TRUE, rows |-> View(s)]]

\* identity map: a collection is loaded once and kept until it is expired
Load(s, message_id) ==
    IF identity[s][message_id].loaded THEN identity[s]
    ELSE [identity[s] EXCEPT ![message_id] =
             [loaded |-> TRUE, rows |-> RowsOf(View(s), message_id)]]

\* classify_message_by_id, lines 150-157: fetch the message or raise
FetchMessage(s, message_id, assign, strategy, top_n, threshold) ==
    /\ call.strategy = "none"
    /\ pc[s] = "idle"
    /\ LET message == get_by_id(message_id)
           f == [BlankFrame EXCEPT !.message_id = message_id, !.assign = assign,
                                   !.strategy = strategy, !.top_n = top_n,
                                   !.threshold = threshold, !.message = message]
       IN  /\ frame' = [frame EXCEPT ![s] = f]
           /\ IF message.exists
              THEN /\ pc' = [pc EXCEPT ![s] = "fetched"]
                   /\ identity' = [identity EXCEPT ![s] = Load(s, message_id)]
                   /\ outcome' = [outcome EXCEPT ![s] = NoOutcome]
              ELSE /\ pc' = [pc EXCEPT ![s] = "returned"]
                   /\ outcome' = [outcome EXCEPT ![s] = Raise("MessageNotFound", message_id)]
                   /\ UNCHANGED identity
    /\ UNCHANGED <<messages, categories_table, message_categories, txn,
                   argsort_kind, directVars, batch>>

\* classify_message(message, categories, assign) called with a Message object
\* of the caller's making and the stored categories: the call starts where
\* classify_message_by_id hands over, with nothing looked up or loaded
ClassifyMessageObject(s, message, assign, strategy, top_n, threshold) ==
    /\ call.strategy = "none"
    /\ pc[s] = "idle"
    /\ frame' = [frame EXCEPT ![s] =
           [BlankFrame EXCEPT !.message_id = message.id, !.assign = assign,
                              !.strategy = strategy, !.top_n = top_n,
                              !.threshold = threshold,
                              !.message = [exists |-> TRUE, id |-> message.id,
                                           embedding |-> message.embedding]]]
    /\ pc' = [pc EXCEPT ![s] = "fetched"]
    /\ outcome' = [outcome EXCEPT ![s] = NoOutcome]
    /\ UNCHANGED <<messages, categories_table, message_categories, txn, identity,
                   argsort_kind, directVars, batch>>

\* lines 160-133: fetch the categories, run classify_message up to line 116
Classify(s) ==
    /\ pc[s] = "fetched"
    /\ LET f    == frame[s]
           cats == get_all
       IN  \E r \in IF ReachesStrategy(f.message, cats)
                     THEN StrategyClassify(f.strategy, f.message,
                              WithEmbeddings(cats), f.top_n, f.threshold)
                     ELSE {NoOutcome} :
             LET res == classify_message(f.message, cats, r)
             IN  /\ frame' = [frame EXCEPT ![s].matches = res.matches,
                                 ![s].raised = r.error,
                                 ![s].invoked =
                                     IF ReachesStrategy(f.message, cats) THEN 1 ELSE 0]
                 /\ outcome' = [outcome EXCEPT ![s] = res]
                 /\ pc' = [pc EXCEPT ![s] =
                              IF res.ok /\ Persists(f.assign)
                              THEN "assigning" ELSE "returned"]
    /\ requests' = IF /\ ReachesStrategy(frame[s].message, get_all)
                      /\ frame[s].strategy = "llm"
                      /\ LLMIssuesRequest(WithEmbeddings(get_all))
                   THEN requests + 1 ELSE requests
    /\ UNCHANGED <<messages, categories_table, message_categories, txn, identity,
                   argsort_kind, call, agent, ret, batch>>

\* _assign_categories, lines 180-197: mark the loaded rows deleted, add the new
AssignCategories(s) ==
    /\ pc[s] = "assigning"
    /\ LET f == frame[s]
           message == get_by_id(f.message_id)
       IN  IF message.exists
           THEN /\ identity' = [identity EXCEPT ![s] = Load(s, f.message_id)]
                /\ frame' = [frame EXCEPT
                      ![s].deleted = MarkedDeleted(Load(s, f.message_id)[f.message_id].rows),
                      ![s].added = NewRows(f.message_id, f.matches)]
                /\ pc' = [pc EXCEPT ![s] = "flush_save"]
           ELSE /\ pc' = [pc EXCEPT ![s] = "returned"]
                /\ UNCHANGED <<identity, frame>>
    /\ UNCHANGED <<messages, categories_table, message_categories, txn, outcome,
                   argsort_kind, directVars, batch>>

\* a failed commit that leaves the transaction open with what was written
Rollback_none(t) == t

\* line 199, commit() when the flush raises: the session rolls the
\* transaction back before the exception leaves commit()
Rollback(t) == NoTxn

\* line 199, commit(): the flush writes the pending rows in a transaction
FlushSave(s) ==
    /\ pc[s] = "flush_save"
    /\ \A t \in Sessions \ {s} : ~txn[t].active
    /\ LET f == frame[s]
           saved == SaveRows(View(s), Keys(f.deleted), f.added)
       IN  IF saved.error = ""
           THEN /\ txn' = [txn EXCEPT ![s] = [active |-> TRUE, rows |-> saved.rows]]
                /\ pc' = [pc EXCEPT ![s] = "flush_delete"]
                /\ UNCHANGED <<outcome, identity>>
           ELSE \* the flush fails: the transaction is rolled back, commit() raises
                /\ txn' = [txn EXCEPT ![s] = Rollback([active |-> TRUE, rows |-> saved.rows])]
                /\ identity' = [identity EXCEPT ![s] = [m \in MsgIds |-> Unloaded]]
                /\ outcome' = [outcome EXCEPT ![s] = Raise(saved.error, "")]
                /\ pc' = [pc EXCEPT ![s] = "returned"]
    /\ UNCHANGED <<messages, categories_table, message_categories, frame,
                   argsort_kind, directVars, batch>>

\* the flush then deletes the rows still marked deleted
FlushDelete(s) ==
    /\ pc[s] = "flush_delete"
    /\ txn' = [txn EXCEPT ![s].rows = DeleteRows(@, frame[s].deleted, frame[s].added)]
    /\ pc' = [pc EXCEPT ![s] = "commit"]
    /\ UNCHANGED <<messages, categories_table, message_categories, identity, frame,
                   outcome, argsort_kind, directVars, batch>>

\* COMMIT: the transaction's rows become the committed ones, the session's
\* objects are expired (expire_on_commit)
Commit(s) ==
    /\ pc[s] = "commit"
    /\ message_categories' = txn[s].rows
    /\ txn' = [txn EXCEPT ![s] = NoTxn]
    /\ identity' = [identity EXCEPT ![s] = [m \in MsgIds |-> Unloaded]]
    /\ pc' = [pc EXCEPT ![s] = "returned"]
    /\ UNCHANGED <<messages, categories_table, frame, outcome,
                   argsort_kind, directVars, batch>>

\* the request ends: the caller has the result or the exception, and the
\* request's session is closed (deps.get_db_session, lines 54-58)
CloseSession(s) ==
    /\ pc[s] = "returned"
    /\ pc' = [pc EXCEPT ![s] = "closed"]
    /\ identity' = [identity EXCEPT ![s] = [m \in MsgIds |-> Unloaded]]
    /\ UNCHANGED <<messages, categories_table, message_categories, txn, frame, outcome,
                   argsort_kind, directVars, batch>>

\* ----------------------------------------- direct use of a strategy
NoCall ==
    [strategy |-> "none", message |-> Message("", NoEmbedding), categories |-> <<>>,
     top_n |-> 0, threshold |-> 0]

NotReturned == [done |-> FALSE, result |-> NoOutcome]

\* category lists of length 0..MaxCats, the i-th category having id i
CategoryLists(embeddings) ==
    {[i \in 1..n |-> Category(i, es[i])] :
        n \in 0..MaxCats, es \in [1..MaxCats -> embeddings]}

DirectCall(strategy, message, cats, top_n, threshold) ==
    [strategy |-> strategy, message |-> message, categories |-> cats,
     top_n |-> top_n, threshold |-> threshold]

\* strategy.classify(message, categories, top_n, threshold) called directly
EmbeddingClassify ==
    /\ call.strategy = "embedding"
    /\ ~ret.done
    /\ ret' = [done |-> TRUE,
               result |-> EmbeddingSimilarityStrategy_classify(call.message,
                             call.categories, call.top_n, call.threshold, argsort_kind)]
    /\ UNCHANGED <<dbVars, argsort_kind, call, agent, requests, batch>>

LLMClassify ==
    /\ call.strategy = "llm"
    /\ ~ret.done
    /\ ret' = [done |-> TRUE,
               result |-> LLMClassificationStrategy_classify(call.message,
                             call.categories, call.top_n, call.threshold, agent)]
    /\ requests' = IF LLMIssuesRequest(call.categories) THEN requests + 1 ELSE requests
    /\ UNCHANGED <<dbVars, argsort_kind, call, agent, batch>>

\* ------------------------------------------- a caller of several calls
\* the caller's locals: the ids it classifies in turn, the index of the call
\* in hand, the service's top_n and threshold, the count of calls that
\* returned, the count of warnings logged for calls that failed, the
\* exception that ended it, and after each call the rows that were stored for
\* the id of that call
NoBatch ==
    [kind |-> "none", message_ids |-> <<>>, idx |-> 1, top_n |-> 0, threshold |-> 0,
     classified_count |-> 0, warned |-> 0, escaped |-> "", after |-> <<>>]

\* what the caller notes when a call has ended: whether it returned, and the
\* rows then stored for the id of the call
Noted(s) ==
    [ok |-> outcome[s].ok,
     rows |-> RowsOf(message_categories, batch.message_ids[batch.idx])]

\* a client that repeats POST classify for one message: every request gets
\* a ClassificationService of its own on a session of its own (deps.py:61-75)
RequestStarts(s) ==
    /\ batch.kind = "rerun"
    /\ batch.idx <= Len(batch.message_ids)
    /\ FetchMessage(s, batch.message_ids[batch.idx], TRUE, "embedding",
                    batch.top_n, batch.threshold)

\* the request is over and its session closed; the next one starts afresh
RequestEnds(s) ==
    /\ batch.kind = "rerun"
    /\ pc[s] = "closed"
    /\ batch' = [batch EXCEPT !.idx = @ + 1,
                              !.after = Append(@, Noted(s)),
                              !.classified_count =
                                  IF outcome[s].ok THEN @ + 1 ELSE @]
    /\ pc' = [pc EXCEPT ![s] = "idle"]
    /\ UNCHANGED <<messages, categories_table, message_categories, txn, identity,
                   frame, outcome, argsort_kind, directVars>>

\* BootstrapService._classify_messages: one session and one service with the
\* LLM strategy for the whole list (bootstrap_service.py:208-218)
\* which exceptions are a ValueError: the three the service raises itself.
\* What the agent raises (the provider's errors, the validation of its
\* output) and what the commit raises are not.
IsValueError(error) ==
    error \in {"MessageNotFound", "MissingEmbedding", "NoScoreableCategories"}

\* a driver that counts every call
Counted_any(ok, classified_count) == classified_count + 1

\* line 226: classified_count += 1, reached when the call returned
Counted(ok, classified_count) ==
    IF ok THEN classified_count + 1 ELSE classified_count

\* lines 221-225: the next id of the list is classified
BatchCalls(s) ==
    /\ batch.kind = "bootstrap"
    /\ batch.escaped = ""
    /\ batch.idx <= Len(batch.message_ids)
    /\ FetchMessage(s, batch.message_ids[batch.idx], TRUE, "llm",
                    batch.top_n, batch.threshold)

\* lines 225-230: the call returned, or raised a ValueError that is logged
\* and passed over, or raised something else, which leaves the loop and the
\* function through the finally of line 237
BatchTakes(s) ==
    /\ batch.kind = "bootstrap"
    /\ pc[s] = "returned"
    /\ LET caught == ~outcome[s].ok /\ IsValueError(outcome[s].error)
           left   == ~outcome[s].ok /\ ~IsValueError(outcome[s].error)
       IN  /\ batch' = [batch EXCEPT
                  !.idx = @ + 1,
                  !.after = Append(@, Noted(s)),
                  !.classified_count = Counted(outcome[s].ok, @),
                  !.warned = IF caught THEN @ + 1 ELSE @,
                  !.escaped = IF left THEN outcome[s].error ELSE @]
           /\ pc' = [pc EXCEPT ![s] = IF left THEN "closed" ELSE "idle"]
           /\ identity' = IF left
                          THEN [identity EXCEPT ![s] = [m \in MsgIds |-> Unloaded]]
                          ELSE identity
    /\ UNCHANGED <<messages, categories_table, message_categories, txn, frame,
                   outcome, argsort_kind, directVars>>

\* lines 232-238: the list is done; the log line divides by its length
BatchReturns(s) ==
    /\ batch.kind = "bootstrap"
    /\ batch.escaped = ""
    /\ batch.idx > Len(batch.message_ids)
    /\ pc[s] = "idle"
    /\ batch' = [batch EXCEPT !.escaped = IF Len(batch.message_ids) = 0
                                          THEN "ZeroDivisionError" ELSE @]
    /\ pc' = [pc EXCEPT ![s] = "closed"]
    /\ identity' = [identity EXCEPT ![s] = [m \in MsgIds |-> Unloaded]]
    /\ UNCHANGED <<messages, categories_table, message_categories, txn, frame,
                   outcome, argsort_kind, directVars>>

\* MessagesService._classify_all_messages_async: the injected service, with
\* the default strategy on the request's session (deps.py:61-75,92-107),
\* classifies the imported messages in turn (messages_service.py:213-217)
ImportCalls(s) ==
    /\ batch.kind = "import"
    /\ batch.escaped = ""
    /\ batch.idx <= Len(batch.message_ids)
    /\ FetchMessage(s, batch.message_ids[batch.idx], TRUE, "embedding",
                    batch.top_n, batch.threshold)

\* lines 215-217: a ValueError of the call is suppressed.  A call that
\* returned gives its ClassificationResult to await, which raises TypeError
\* for an object that is not awaitable; that and any other exception leave
\* the loop, asyncio.run and import_from_jsonl (lines 136-155)
ImportTakes(s) ==
    /\ batch.kind = "import"
    /\ pc[s] = "returned"
    /\ LET suppressed == ~outcome[s].ok /\ IsValueError(outcome[s].error)
       IN  /\ batch' = [batch EXCEPT
                  !.idx = @ + 1,
                  !.after = Append(@, Noted(s)),
                  !.classified_count = Counted(outcome[s].ok, @),
                  !.escaped = IF suppressed THEN @
                              ELSE IF outcome[s].ok THEN "TypeError"
                              ELSE outcome[s].error]
           /\ pc' = [pc EXCEPT ![s] = IF suppressed THEN "idle" ELSE "closed"]
           /\ identity' = IF suppressed THEN identity
                          ELSE [identity EXCEPT ![s] = [m \in MsgIds |-> Unloaded]]
    /\ UNCHANGED <<messages, categories_table, message_categories, txn, frame,
                   outcome, argsort_kind, directVars>>

\* line 153: every message was gone through, the ImportResult is returned
ImportReturns(s) ==
    /\ batch.kind = "import"
    /\ batch.escaped = ""
    /\ batch.idx > Len(batch.message_ids)
    /\ pc[s] = "idle"
    /\ pc' = [pc EXCEPT ![s] = "closed"]
    /\ identity' = [identity EXCEPT ![s] = [m \in MsgIds |-> Unloaded]]
    /\ UNCHANGED <<messages, categories_table, message_categories, txn, frame,
                   outcome, argsort_kind, directVars, batch>>

\* ---------------------------------------------------------- initial states
ArgsortKinds == {"stable-asc", "unstable"}

OldRow(message_id, category_id) ==
    MessageCategory(message_id, category_id, Tenths(7), <<"old">>)

InitSessions ==
    /\ txn = [s \in Sessions |-> NoTxn]
    /\ identity = [s \in Sessions |-> [m \in MsgIds |-> Unloaded]]
    /\ pc = [s \in Sessions |-> "idle"]
    /\ frame = [s \in Sessions |-> BlankFrame]
    /\ outcome = [s \in Sessions |-> NoOutcome]

Absent == [exists |-> FALSE, embedding |-> NoEmbedding]
Stored(embedding) == [exists |-> TRUE, embedding |-> embedding]

ServiceMsgEmbeddings == {NoEmbedding, <<1, 0>>, <<1, 1>>}
ServiceCatEmbeddings == {NoEmbedding, <<1, 0>>, <<0, 1>>}

\* ------------------------------------------- deletions by another request
\* MessagesService.delete_message on session s: the message goes, and with
\* it the rows of its message_categories collection (cascade of
\* models.py:50-53), in one transaction
DeleteMessage(s, message_id) ==
    /\ pc[s] = "idle"
    /\ messages[message_id].exists
    /\ \A t \in Sessions : ~txn[t].active
    /\ messages' = [messages EXCEPT ![message_id] = Absent]
    /\ message_categories' = {r \in message_categories : r.message_id # message_id}
    /\ UNCHANGED <<categories_table, txn, identity, pc, frame, outcome,
                   argsort_kind, directVars, batch>>

\* CategoriesService.delete_category on session s: the category goes, and
\* with it the rows of its category_messages collection (models.py:80-82)
DeleteCategory(s, category_id) ==
    /\ pc[s] = "idle"
    /\ categories_table[category_id].exists
    /\ \A t \in Sessions : ~txn[t].active
    /\ categories_table' = [categories_table EXCEPT ![category_id] = Absent]
    /\ message_categories' = {r \in message_categories : r.category_id # category_id}
    /\ UNCHANGED <<messages, txn, identity, pc, frame, outcome,
                   argsort_kind, directVars, batch>>

\* a database as the CRUD operations can leave it, and idle sessions
Init ==
    /\ messages \in {ms \in [MsgIds -> {Absent} \cup {Stored(e) : e \in ServiceMsgEmbeddings}] :
                        ms["m1"].exists /\ ms["m2"] \in {Absent, Stored(<<1, 0>>)}}
    /\ categories_table \in [CatIds -> {Absent} \cup {Stored(e) : e \in ServiceCatEmbeddings}]
    /\ \E keys \in SUBSET {<<m, c>> \in MsgIds \X CatIds :
                             messages[m].exists /\ categories_table[c].exists} :
          message_categories = {OldRow(k[1], k[2]) : k \in keys}
    /\ InitSessions
    /\ argsort_kind \in ArgsortKinds
    /\ call = NoCall
    /\ agent = NoOutput
    /\ ret = NotReturned
    /\ requests = 0
    /\ batch = NoBatch

Next ==
    \/ \E s \in Writers, m \in MsgIds, assign \in BOOLEAN,
         strategy \in {"embedding", "llm"}, t \in ServiceTopNs, th \in ServiceThresholds :
           FetchMessage(s, m, assign, strategy, t, th)
    \/ \E s \in Writers : Classify(s)
    \/ \E s \in Writers : AssignCategories(s)
    \/ \E s \in Writers : FlushSave(s)
    \/ \E s \in Writers : FlushDelete(s)
    \/ \E s \in Writers : Commit(s)
    \/ \E s \in Writers : CloseSession(s)

Spec == Init /\ [][Next]_vars

\* a strategy called directly, on arguments drawn from the bounded sets
InitStrategy ==
    /\ messages = [m \in MsgIds |-> Absent]
    /\ categories_table = [c \in CatIds |-> Absent]
    /\ message_categories = {}
    /\ InitSessions
    /\ requests = 0
    /\ batch = NoBatch
    /\ ret = NotReturned
    /\ \/ /\ argsort_kind \in ArgsortKinds
          /\ agent = NoOutput
          /\ call \in {DirectCall("embedding", Message("m1", e), cs, t, th) :
                         e \in {NoEmbedding} \cup MsgVectors,
                         cs \in CategoryLists({NoEmbedding} \cup CatVectors),
                         t \in TopNs, th \in Thresholds}
       \/ /\ argsort_kind = "stable-asc"
          /\ call \in {DirectCall("llm", Message("m1", e), cs, t, th) :
                         e \in {NoEmbedding, <<1, 0>>},
                         cs \in CategoryLists({NoEmbedding}),
                         t \in TopNs, th \in LLMThresholds}
          /\ agent \in IF LLMIssuesRequest(call.categories)
                       THEN AgentOutputs(Len(call.categories), Explanations)
                       ELSE {NoOutput}

NextStrategy == EmbeddingClassify \/ LLMClassify

SpecStrategy == InitStrategy /\ [][NextStrategy]_vars

\* classify_message called on message objects, stored or not
NextObject ==
    \/ \E s \in Writers, m \in MsgIds, e \in ServiceMsgEmbeddings, assign \in BOOLEAN,
         strategy \in {"embedding", "llm"}, t \in ServiceTopNs, th \in ServiceThresholds :
           ClassifyMessageObject(s, Message(m, e), assign, strategy, t, th)
    \/ \E s \in Writers : Classify(s)
    \/ \E s \in Writers : AssignCategories(s)
    \/ \E s \in Writers : FlushSave(s)
    \/ \E s \in Writers : FlushDelete(s)
    \/ \E s \in Writers : Commit(s)
    \/ \E s \in Writers : CloseSession(s)

SpecObject == Init /\ [][NextObject]_vars

\* two requests at once, each with a session and a service of its own
\* (deps.py:46-75), both classifying message m1
InitConcurrent ==
    /\ messages = [m \in MsgIds |-> IF m = "m1" THEN Stored(<<1, 0>>) ELSE Absent]
    /\ categories_table \in [CatIds -> {Stored(e) : e \in {<<1, 0>>, <<1, 1>>}}]
    /\ \E keys \in SUBSET {<<m, c>> \in MsgIds \X CatIds :
                             messages[m].exists /\ categories_table[c].exists} :
          message_categories = {OldRow(k[1], k[2]) : k \in keys}
    /\ InitSessions
    /\ argsort_kind \in ArgsortKinds
    /\ call = NoCall
    /\ agent = NoOutput
    /\ ret = NotReturned
    /\ requests = 0
    /\ batch = NoBatch

NextConcurrent ==
    \/ \E s \in Sessions, strategy \in {"embedding", "llm"}, t \in ServiceTopNs,
         th \in ServiceThresholds :
           FetchMessage(s, "m1", TRUE, strategy, t, th)
    \/ \E s \in Sessions : Classify(s)
    \/ \E s \in Sessions : AssignCategories(s)
    \/ \E s \in Sessions : FlushSave(s)
    \/ \E s \in Sessions : FlushDelete(s)
    \/ \E s \in Sessions : Commit(s)

SpecConcurrent == InitConcurrent /\ [][NextConcurrent]_vars

\* a classify request while another request deletes messages and categories
NextDelete ==
    \/ \E s \in Writers, m \in MsgIds, strategy \in {"embedding", "llm"},
         t \in ServiceTopNs, th \in ServiceThresholds :
           FetchMessage(s, m, TRUE, strategy, t, th)
    \/ \E s \in Writers : Classify(s)
    \/ \E s \in Writers : AssignCategories(s)
    \/ \E s \in Writers : FlushSave(s)
    \/ \E s \in Writers : FlushDelete(s)
    \/ \E s \in Writers : Commit(s)
    \/ \E s \in Writers : CloseSession(s)
    \/ \E s \in Readers, m \in MsgIds : DeleteMessage(s, m)
    \/ \E s \in Readers, c \in CatIds : DeleteCategory(s, c)

SpecDelete == Init /\ [][NextDelete]_vars

\* the lists of ids handed to _classify_messages
BatchLists ==
    {<<>>, <<"m1">>, <<"m2">>, <<"m1", "m2">>, <<"m2", "m1">>, <<"m1", "m1">>,
     <<"m1", "m2", "m1">>}

Bootstrap(message_ids, top_n, threshold) ==
    [NoBatch EXCEPT !.kind = "bootstrap", !.message_ids = message_ids,
                    !.top_n = top_n, !.threshold = threshold]

InitBatch ==
    /\ messages \in {ms \in [MsgIds -> {Absent} \cup {Stored(e) : e \in ServiceMsgEmbeddings}] :
                        ms["m1"].exists /\ ms["m2"] \in {Absent, Stored(<<1, 0>>)}}
    /\ categories_table \in [CatIds -> {Absent} \cup {Stored(e) : e \in ServiceCatEmbeddings}]
    /\ \E keys \in SUBSET {<<m, c>> \in MsgIds \X CatIds :
                             messages[m].exists /\ categories_table[c].exists} :
          message_categories = {OldRow(k[1], k[2]) : k \in keys}
    /\ InitSessions
    /\ argsort_kind = "stable-asc"
    /\ call = NoCall
    /\ agent = NoOutput
    /\ ret = NotReturned
    /\ requests = 0
    /\ batch \in {Bootstrap(ids, t, th) : ids \in BatchLists, t \in ServiceTopNs,
                                           th \in ServiceThresholds}

NextBatch ==
    \/ \E s \in Writers : BatchCalls(s)
    \/ \E s \in Writers : Classify(s)
    \/ \E s \in Writers : AssignCategories(s)
    \/ \E s \in Writers : FlushSave(s)
    \/ \E s \in Writers : FlushDelete(s)
    \/ \E s \in Writers : Commit(s)
    \/ \E s \in Writers : BatchTakes(s)
    \/ \E s \in Writers : BatchReturns(s)

SpecBatch == InitBatch /\ [][NextBatch]_vars

\* the lists of messages an imported file gives: every id once
ImportLists == {<<"m1">>, <<"m1", "m2">>, <<"m2", "m1">>}

Import(message_ids, top_n, threshold) ==
    [NoBatch EXCEPT !.kind = "import", !.message_ids = message_ids,
                    !.top_n = top_n, !.threshold = threshold]

\* the imported messages are stored, with the embedding made while parsing
\* (messages_service.py:139-141,179), and have no rows yet
InitImport ==
    /\ batch \in {Import(ids, t, th) : ids \in ImportLists, t \in ServiceTopNs,
                                        th \in Thresholds}
    /\ messages \in {ms \in [MsgIds -> {Absent} \cup {Stored(e) : e \in ServiceMsgEmbeddings}] :
                        /\ ms["m1"].exists
                        /\ ms["m2"] \in {Absent, Stored(<<1, 0>>)}
                        /\ \A i \in 1..Len(batch.message_ids) :
                              ms[batch.message_ids[i]].exists}
    /\ categories_table \in [CatIds -> {Absent} \cup {Stored(e) : e \in ServiceCatEmbeddings}]
    /\ \E keys \in SUBSET {<<m, c>> \in MsgIds \X CatIds :
                             /\ messages[m].exists /\ categories_table[c].exists
                             /\ \A i \in 1..Len(batch.message_ids) :
                                   batch.message_ids[i] # m} :
          message_categories = {OldRow(k[1], k[2]) : k \in keys}
    /\ InitSessions
    /\ argsort_kind \in ArgsortKinds
    /\ call = NoCall
    /\ agent = NoOutput
    /\ ret = NotReturned
    /\ requests = 0

NextImport ==
    \/ \E s \in Writers : ImportCalls(s)
    \/ \E s \in Writers : Classify(s)
    \/ \E s \in Writers : AssignCategories(s)
    \/ \E s \in Writers : FlushSave(s)
    \/ \E s \in Writers : FlushDelete(s)
    \/ \E s \in Writers : Commit(s)
    \/ \E s \in Writers : ImportTakes(s)
    \/ \E s \in Writers : ImportReturns(s)

SpecImport == InitImport /\ [][NextImport]_vars

\* classify_message_by_id(m) invoked twice, with the default strategy
Rerun(m, top_n, threshold) ==
    [NoBatch EXCEPT !.kind = "rerun", !.message_ids = <<m, m>>,
                    !.top_n = top_n, !.threshold = threshold]

InitRerun ==
    /\ messages \in {ms \in [MsgIds -> {Absent} \cup {Stored(e) : e \in ServiceMsgEmbeddings}] :
                        ms["m1"].exists /\ ms["m2"] \in {Absent, Stored(<<1, 0>>)}}
    /\ categories_table \in [CatIds -> {Absent} \cup {Stored(e) : e \in ServiceCatEmbeddings}]
    /\ \E keys \in SUBSET {<<m, c>> \in MsgIds \X CatIds :
                             messages[m].exists /\ categories_table[c].exists} :
          message_categories = {OldRow(k[1], k[2]) : k \in keys}
    /\ InitSessions
    /\ argsort_kind \in ArgsortKinds
    /\ call = NoCall
    /\ agent = NoOutput
    /\ ret = NotReturned
    /\ requests = 0
    /\ batch \in {Rerun(m, t, th) : m \in MsgIds, t \in ServiceTopNs,
                                      th \in Thresholds}

NextRerun ==
    \/ \E s \in Writers : RequestStarts(s)
    \/ \E s \in Writers : Classify(s)
    \/ \E s \in Writers : AssignCategories(s)
    \/ \E s \in Writers : FlushSave(s)
    \/ \E s \in Writers : FlushDelete(s)
    \/ \E s \in Writers : Commit(s)
    \/ \E s \in Writers : CloseSession(s)
    \/ \E s \in Writers : RequestEnds(s)

SpecRerun == InitRerun /\ [][NextRerun]_vars


\* =================================================== the strategies' contract
\* a direct call that has returned a match list
Returned(strategy) ==
    ret.done /\ call.strategy = strategy /\ ret.result.ok

\* C4 as stated: for both strategies and any topN passed to classify, the
\* returned match list has at most topN entries
C4_AnyTopN ==
    (ret.done /\ ret.result.ok) => Len(ret.result.matches) <= call.top_n

\* C4, for the topN values that are a count: when topN >= 0, both strategies
\* return at most topN matches
C4_LengthAtMostTopN ==
    (ret.done /\ ret.result.ok /\ call.top_n >= 0)
        => Len(ret.result.matches) <= call.top_n

\* the LLM strategy has cut two qualifying decisions down to topN = 1
C4_Witness ==
    /\ Returned("llm")
    /\ call.top_n = 1
    /\ Len(ret.result.matches) = 1
    /\ Len(agent.matches) = 2
    /\ \A i \in 1..2 : LLMKeeps(agent.matches[i], call.categories, call.threshold)

\* C5: every match either strategy returns has a score >= the threshold of
\* the call
C5_ScoreAtLeastThreshold ==
    (ret.done /\ ret.result.ok)
        => \A i \in 1..Len(ret.result.matches) :
              GE(ret.result.matches[i].score, Tenths(call.threshold))

\* of two decisions that belong and have a valid index, the one under the
\* threshold was left out and the other returned
C5_Witness ==
    /\ Returned("llm")
    /\ Len(agent.matches) = 2
    /\ \A i \in 1..2 : /\ agent.matches[i].is_in_category
                        /\ agent.matches[i].category_index \in
                               0..(Len(call.categories) - 1)
    /\ \E i \in 1..2 : agent.matches[i].confidence < call.threshold
    /\ call.top_n >= 2
    /\ Len(ret.result.matches) = 1

\* C6: the match list either strategy returns is ordered by score,
\* non-increasing
C6_NonIncreasing ==
    (ret.done /\ ret.result.ok)
        => \A i \in 1..(Len(ret.result.matches) - 1) :
              GE(ret.result.matches[i].score, ret.result.matches[i + 1].score)

\* the provider gave the lower confidence first, and both decisions came
\* back with the higher one first
C6_Witness ==
    /\ Returned("llm")
    /\ Len(agent.matches) = 2
    /\ agent.matches[1].confidence < agent.matches[2].confidence
    /\ Len(ret.result.matches) = 2
    /\ LT(ret.result.matches[2].score, ret.result.matches[1].score)

\* the similarity the embedding strategy computes for a category
SimilarityOf(category) == Cosine(category.embedding, call.message.embedding)

\* C7: in the embedding strategy equal similarities keep the order of the
\* input list, and when topN cuts between them the earlier category is kept
\* (in a direct call the i-th category of the list has id i)
C7_StableOnTies ==
    Returned("embedding") =>
        LET ms == ret.result.matches
        IN  /\ \A i, j \in 1..Len(ms) :
                  (i < j /\ ms[i].score = ms[j].score)
                      => ms[i].category.id < ms[j].category.id
            /\ \A i \in 1..Len(ms), k \in 1..Len(call.categories) :
                  (/\ k < ms[i].category.id
                   /\ Truthy(call.categories[k].embedding)
                   /\ SimilarityOf(call.categories[k]) = ms[i].score)
                      => \E j \in 1..Len(ms) : ms[j].category.id = k

\* C8: the embedding strategy, given a message with an embedding and no
\* category with one, raises NoScoreableCategories
C8_NoScoreableCategories ==
    (/\ ret.done
     /\ call.strategy = "embedding"
     /\ Truthy(call.message.embedding)
     /\ WithEmbeddings(call.categories) = <<>>)
        => (~ret.result.ok /\ ret.result.error = "NoScoreableCategories")


\* ================================================ the orchestrator's contract
\* the call of session s has returned a result to its caller
Succeeded(s) == pc[s] = "returned" /\ outcome[s].ok

\* the ids of the categories of a match list
CategoryIdsOf(matches) == {matches[i].category.id : i \in 1..Len(matches)}

C2_ReaderSeesOldOrNew ==
    [][\A r \in Readers, m \in MsgIds :
          (RowsOf(ReaderView(r), m))' # RowsOf(ReaderView(r), m)
              => \E s \in Writers :
                    /\ frame[s].assign
                    /\ frame[s].message_id = m
                    /\ (RowsOf(ReaderView(r), m))' = AddedRows(m, frame[s].matches)]_vars

\* the writer's transaction holds old and new rows of m together, and the
\* reader still reads the old set
C2_Witness ==
    \E s \in Writers, r \in Readers :
        LET m == frame[s].message_id
        IN  /\ pc[s] = "flush_delete"
            /\ frame[s].deleted # {}
            /\ frame[s].matches # <<>>
            /\ \E x \in RowsOf(txn[s].rows, m) : x \in frame[s].deleted
            /\ \E x \in RowsOf(txn[s].rows, m) : x \in AddedRows(m, frame[s].matches)
            /\ RowsOf(ReaderView(r), m) = frame[s].deleted

\* C3: classify_message_by_id(m, assign=False) calls the strategy and returns
\* what it gave, and no step of the call changes a stored row of any message
C3_PreviewLeavesRows ==
    /\ [](\A s \in Writers :
            (/\ pc[s] = "returned"
             /\ frame[s].message.exists
             /\ ~frame[s].assign
             /\ ReachesStrategy(frame[s].message, get_all))
                => /\ frame[s].invoked = 1
                   /\ outcome[s] \in StrategyClassify(frame[s].strategy,
                          frame[s].message, WithEmbeddings(get_all),
                          frame[s].top_n, frame[s].threshold))
    /\ [][\A s \in Writers :
            (pc[s] # "idle" /\ ~frame[s].assign)
                => message_categories' = message_categories]_vars

\* a preview has returned matches that differ from the rows stored for m
C3_Witness ==
    \E s \in Writers :
        /\ Succeeded(s) /\ ~frame[s].assign
        /\ frame[s].invoked = 1
        /\ Len(outcome[s].matches) >= 1
        /\ RowsOf(message_categories, frame[s].message_id) # {}
        /\ RowsOf(message_categories, frame[s].message_id)
              # AddedRows(frame[s].message_id, outcome[s].matches)


\* the call of session s is on a stored message that has no embedding, with
\* the embedding strategy configured
OnMessageWithoutEmbedding(s) ==
    /\ frame[s].strategy = "embedding"
    /\ frame[s].message.exists
    /\ ~Truthy(frame[s].message.embedding)

\* EmbeddingSimilarityStrategy.classify itself, on a message without
\* embedding, whatever the other arguments
StrategyRefusesNoEmbedding ==
    \A m \in MsgIds, cs \in CategoryLists({NoEmbedding} \cup CatVectors),
       t \in TopNs, th \in Thresholds, k \in ArgsortKinds :
        EmbeddingSimilarityStrategy_classify(Message(m, NoEmbedding), cs, t, th, k)
            = Raise("MissingEmbedding", m)

\* C9: with the embedding strategy, classifying a message without embedding
\* raises MissingEmbedding naming the message id, gives no match list, and no
\* step of the call writes a row
C9_MissingEmbedding ==
    /\ [](/\ StrategyRefusesNoEmbedding
          /\ \A s \in Writers :
                (pc[s] = "returned" /\ OnMessageWithoutEmbedding(s))
                    => /\ outcome[s] = Raise("MissingEmbedding", frame[s].message_id)
                       /\ outcome[s].matches = <<>>)
    /\ [][\A s \in Writers :
            (pc[s] # "idle" /\ OnMessageWithoutEmbedding(s))
                => /\ message_categories' = message_categories
                   /\ ~txn'[s].active]_vars

\* such a call, asked to assign, has ended on a message that has rows
C9_Witness ==
    \E s \in Writers :
        /\ pc[s] = "returned" /\ OnMessageWithoutEmbedding(s)
        /\ frame[s].assign
        /\ outcome[s].error = "MissingEmbedding"
        /\ outcome[s].about = frame[s].message_id
        /\ RowsOf(message_categories, frame[s].message_id) # {}

\* the call of session s is for an id under which no message is stored
OnUnknownId(s) == pc[s] # "idle" /\ ~messages[frame[s].message_id].exists

\* C10: classify_message_by_id on an id with no stored message raises
\* MessageNotFound before the strategy is called, and no step of the call
\* creates, changes or deletes a row of any message
C10_MessageNotFound ==
    /\ [](\A s \in Writers :
            (pc[s] = "returned" /\ OnUnknownId(s))
                => /\ outcome[s] = Raise("MessageNotFound", frame[s].message_id)
                   /\ frame[s].invoked = 0)
    /\ [][\A s \in Writers :
            OnUnknownId(s)'
                => /\ pc'[s] \in {"returned", "closed"}
                   /\ message_categories' = message_categories
                   /\ ~txn'[s].active]_vars

\* the call, asked to assign, has ended so while rows are stored
C10_Witness ==
    \E s \in Writers :
        /\ pc[s] = "returned" /\ OnUnknownId(s)
        /\ frame[s].assign
        /\ outcome[s].error = "MessageNotFound"
        /\ message_categories # {}


\* ============================================================ repeated calls
\* C11: with the embedding strategy and unchanged data, a second
\* classify_message_by_id(m, assign=True) leaves for m the set the first one
\* left: the same category ids, each with the same score and explanation
C11_Idempotent ==
    (/\ batch.kind = "rerun"
     /\ Len(batch.after) = 2
     /\ batch.after[1].ok
     /\ batch.after[2].ok)
        => batch.after[2].rows = batch.after[1].rows

\* both invocations returned, and left a row that differs from the rows m had
\* before the first
C11_Witness ==
    /\ batch.kind = "rerun"
    /\ Len(batch.after) = 2
    /\ batch.after[1].ok /\ batch.after[2].ok
    /\ batch.after[2].rows # {}
    /\ \A r \in batch.after[2].rows : r.explanation # <<"old">>


\* ======================================================= the LLM strategy
\* the provider answered a direct call of the LLM strategy with decisions
Answered ==
    /\ ret.done
    /\ call.strategy = "llm"
    /\ call.categories # <<>>
    /\ agent.error = ""

\* decision d belongs, reaches the threshold of the call and names one of the
\* categories of the call
Qualifies(d) ==
    /\ d.is_in_category = TRUE
    /\ d.confidence >= call.threshold
    /\ d.category_index \in 0..(Len(call.categories) - 1)

\* match m is what decision d asks for
MatchOf(m, d) ==
    /\ m.category = call.categories[d.category_index + 1]
    /\ m.score = Tenths(d.confidence)
    /\ m.explanation = d.explanation

\* C12: the LLM strategy returns a match only for a decision that belongs,
\* reaches the threshold and has an index in range, with the category at that
\* index; a decision with an index out of range raises nothing and costs no
\* other decision of the response its place
C12_OnlyValidDecisions ==
    Answered =>
        /\ ret.result.ok
        /\ \A i \in 1..Len(ret.result.matches) :
              \E j \in 1..Len(agent.matches) :
                  /\ Qualifies(agent.matches[j])
                  /\ MatchOf(ret.result.matches[i], agent.matches[j])
        /\ call.top_n >= Len(agent.matches)
              => \A j \in 1..Len(agent.matches) :
                    Qualifies(agent.matches[j])
                        => \E i \in 1..Len(ret.result.matches) :
                              MatchOf(ret.result.matches[i], agent.matches[j])

\* of two decisions that belong and reach the threshold, the one with an
\* index out of range was dropped and the other returned
C12_Witness ==
    /\ Answered
    /\ Len(agent.matches) = 2
    /\ \A j \in 1..2 : /\ agent.matches[j].is_in_category
                       /\ agent.matches[j].confidence >= call.threshold
    /\ ~Qualifies(agent.matches[1])
    /\ Qualifies(agent.matches[2])
    /\ call.top_n >= 2
    /\ Len(ret.result.matches) = 1


\* the places of the response whose decision qualifies
Qualifying == {j \in 1..Len(agent.matches) : Qualifies(agent.matches[j])}

Min(a, b) == IF a <= b THEN a ELSE b

\* C13: the LLM strategy returns the topN qualifying decisions of highest
\* confidence, highest first: as many as qualify up to topN, and no
\* qualifying decision left out has a confidence above a returned one
C13_TopNHighest ==
    Answered =>
        LET ms == ret.result.matches
        IN  /\ ret.result.ok
            /\ \A i \in 1..(Len(ms) - 1) : GE(ms[i].score, ms[i + 1].score)
            /\ call.top_n >= 0 => Len(ms) = Min(call.top_n, Cardinality(Qualifying))
            /\ \A j \in Qualifying :
                  \/ \E i \in 1..Len(ms) : MatchOf(ms[i], agent.matches[j])
                  \/ \A i \in 1..Len(ms) :
                        GE(ms[i].score, Tenths(agent.matches[j].confidence))

\* two decisions qualify, the lower confidence first, and topN = 1 kept the
\* higher one
C13_Witness ==
    /\ Answered
    /\ Qualifying = {1, 2}
    /\ agent.matches[1].confidence < agent.matches[2].confidence
    /\ call.top_n = 1
    /\ Len(ret.result.matches) = 1
    /\ MatchOf(ret.result.matches[1], agent.matches[2])


\* C14: the LLM strategy called with an empty category list returns an empty
\* match list and issues no request to the provider
C14_EmptyListNoRequest ==
    (ret.done /\ call.strategy = "llm" /\ call.categories = <<>>)
        => (ret.result = Return(<<>>) /\ requests = 0)

\* such a call, asked for matches, has returned
C14_Witness ==
    /\ ret.done
    /\ call.strategy = "llm"
    /\ call.categories = <<>>
    /\ call.top_n >= 1
    /\ ret.result.ok
    /\ requests = 0


\* the call of session s, made with the LLM strategy on a stored message
\* while categories are stored, has ended
LLMCallEnded(s) ==
    /\ pc[s] = "returned"
    /\ frame[s].strategy = "llm"
    /\ frame[s].message.exists
    /\ get_all # <<>>

\* C15: one classify call of the LLM strategy on a non-empty category list
\* issues exactly one provider request, and so one classify_message_by_id
\* call with the LLM strategy issues exactly one request for its message
C15_OneRequestPerMessage ==
    /\ (ret.done /\ call.strategy = "llm" /\ call.categories # <<>>) => requests = 1
    /\ \A s \in Writers : LLMCallEnded(s) => requests = 1

\* C16: with the LLM strategy a message needs no embedding:
\* classify_message_by_id on a stored message, with categories stored, calls
\* the provider and raises neither MissingEmbedding nor NoScoreableCategories
C16_LLMNeedsNoEmbedding ==
    \A s \in Writers :
        LLMCallEnded(s) =>
            /\ frame[s].invoked = 1
            /\ ~(outcome[s].error \in {"MissingEmbedding", "NoScoreableCategories"})


\* the batch call on session s is over: it returned, or an exception left it
BatchOver(s) == batch.kind = "bootstrap" /\ pc[s] = "closed"

\* C17: in _classify_messages a failure of one message, a provider or a
\* response-validation error included, is caught for that message: no such
\* exception leaves the batch call, and every id of the list is attempted
C17_FailureSkipsItem ==
    \A s \in Writers :
        (BatchOver(s) /\ batch.message_ids # <<>>)
            => /\ ~(batch.escaped \in {"ProviderError", "ValidationError"})
               /\ Len(batch.after) = Len(batch.message_ids)


\* C18: when _classify_messages returns, its result is the number of ids whose
\* classify_message_by_id call returned, and every id of the list was either
\* counted as classified or logged as failed, once
C18_CountsAddUp ==
    \A s \in Writers :
        (BatchOver(s) /\ batch.escaped = "")
            => /\ Len(batch.after) = Len(batch.message_ids)
               /\ batch.classified_count =
                      Cardinality({i \in 1..Len(batch.after) : batch.after[i].ok})
               /\ batch.classified_count + batch.warned = Len(batch.message_ids)

\* a batch has returned with one id classified and another one failed
C18_Witness ==
    /\ BatchOver("s1")
    /\ batch.escaped = ""
    /\ batch.classified_count >= 1
    /\ batch.warned >= 1


\* the i-th call of the batch returned and no later call that has ended
\* returned for the same id, nor is a call for that id under way
LastReturnedFor(s, i) ==
    /\ batch.after[i].ok
    /\ \A j \in (i + 1)..Len(batch.after) :
          batch.message_ids[j] = batch.message_ids[i] => ~batch.after[j].ok
    /\ ~(/\ pc[s] \in InCall \cup {"returned"}
         /\ batch.idx <= Len(batch.message_ids)
         /\ batch.message_ids[batch.idx] = batch.message_ids[i])

\* C19: once classify_message_by_id has returned for an id of the batch, the
\* rows it stored for that id stay the stored ones, whatever later calls of
\* the batch do: fail, be skipped, or end the batch with an exception
C19_EarlierStaysCommitted ==
    \A s \in Writers :
        batch.kind = "bootstrap" =>
            \A i \in 1..Len(batch.after) :
                LastReturnedFor(s, i) =>
                    RowsOf(message_categories, batch.message_ids[i]) = batch.after[i].rows

\* a call stored rows for its id, and a later call ended the batch with an
\* exception
C19_Witness ==
    /\ BatchOver("s1")
    /\ batch.escaped # ""
    /\ \E i \in 1..Len(batch.after) :
          /\ LastReturnedFor("s1", i)
          /\ batch.after[i].rows # {}
          /\ i < Len(batch.after)


\* C20: a step of classify_message_by_id(m, assign=True) leaves the messages,
\* the categories and the rows of every message other than m as they are
C20_OnlyItsOwnRows ==
    [][\A s \in Writers :
          (pc[s] \in InCall \cup {"idle"} /\ pc'[s] # pc[s] /\ frame'[s].assign)
              => /\ messages' = messages
                 /\ categories_table' = categories_table
                 /\ \A m \in MsgIds \ {frame'[s].message_id} :
                       RowsOf(message_categories', m) = RowsOf(message_categories, m)]_vars

\* the call replaced the rows of its message while another message has rows
C20_Witness ==
    /\ Succeeded("s1")
    /\ frame["s1"].assign
    /\ frame["s1"].deleted # {}
    /\ frame["s1"].added # <<>>
    /\ RowsOf(message_categories, frame["s1"].message_id) # frame["s1"].deleted
    /\ \E m \in MsgIds \ {frame["s1"].message_id} : RowsOf(message_categories, m) # {}


\* C21: every match either strategy returns has a non-empty explanation, and
\* so has every row that is stored
C21_NonEmptyExplanation ==
    /\ (ret.done /\ ret.result.ok)
          => \A i \in 1..Len(ret.result.matches) :
                ret.result.matches[i].explanation # <<>>
    /\ \A r \in message_categories : r.explanation # <<>>


\* C22: one classify_message_by_id call invokes the strategy at most once and
\* issues at most one request, and an error the strategy raised is the error
\* the call ends with: it is not retried and not turned into a result
C22_StrategyErrorReachesCaller ==
    /\ requests <= 1
    /\ \A s \in Writers :
          /\ frame[s].invoked <= 1
          /\ frame[s].raised # ""
                => /\ pc[s] \in {"returned", "closed"}
                   /\ frame[s].invoked = 1
                   /\ outcome[s] = Raise(frame[s].raised, "")

\* the call ended with the provider's error, after one invocation
C22_Witness ==
    /\ pc["s1"] = "returned"
    /\ frame["s1"].strategy = "llm"
    /\ frame["s1"].invoked = 1
    /\ frame["s1"].raised = "ProviderError"
    /\ requests = 1
    /\ outcome["s1"] = Raise("ProviderError", "")


\* the places of the call's list whose category has an embedding and a
\* similarity that reaches the threshold
Scoreable == {k \in 1..Len(call.categories) :
                /\ Truthy(call.categories[k].embedding)
                /\ GE(SimilarityOf(call.categories[k]), Tenths(call.threshold))}

C24_ZeroNormGuarded ==
    (ret.done /\ call.strategy = "embedding" /\ ret.result.ok)
        => \A k \in 1..Len(call.categories) :
              Truthy(call.categories[k].embedding)
                  => ~SimilarityOf(call.categories[k]).nan


\* the import call on session s is over: it returned its ImportResult, or an
\* exception left it
ImportOver(s) == batch.kind = "import" /\ pc[s] = "closed"

\* C25: auto-classification after an import calls classify_message_by_id once
\* for every imported message, in list order, with a ValueError suppressed,
\* and the import call then returns its ImportResult
C25_ImportClassifiesAll ==
    \A s \in Writers :
        ImportOver(s) => /\ batch.escaped = ""
                         /\ Len(batch.after) = Len(batch.message_ids)


\* C26: a strategy returns each category at most once, whatever the provider
\* answers, so the rows one run hands to the persist step have distinct keys
C26_EachCategoryOnce ==
    /\ (ret.done /\ ret.result.ok)
          => \A i, j \in 1..Len(ret.result.matches) :
                i < j => ret.result.matches[i].category.id # ret.result.matches[j].category.id
    /\ \A s \in Sessions :
          \A i, j \in 1..Len(frame[s].added) :
              i < j => Key(frame[s].added[i]) # Key(frame[s].added[j])


\* C27: whenever classify_message(message, categories, assign=True) returns a
\* result, the stored rows of message.id are exactly the returned matches,
\* whether or not a message with that id is stored
C27_ReturnedMeansStored ==
    \A s \in Writers :
        (Succeeded(s) /\ frame[s].assign) =>
            RowsOf(message_categories, frame[s].message_id)
                = AddedRows(frame[s].message_id, outcome[s].matches)


BothFinished ==
    \A s \in Sessions : pc[s] = "returned" /\ frame[s].message_id = "m1"

\* C29: when two classify_message_by_id(m, assign=True) calls for one message
\* ran at once in two sessions and both have finished, one of them having
\* returned, the stored rows of m are the matches of one call that returned:
\* not a mixture of the two runs and not rows of the set before both
C29_OneRunWins ==
    (BothFinished /\ \E s \in Sessions : outcome[s].ok)
        => \E s \in Sessions :
              /\ outcome[s].ok
              /\ RowsOf(message_categories, "m1") = AddedRows("m1", outcome[s].matches)


\* C30: every stored row is of a message and of a category that are stored,
\* also when a deletion made through another session falls between the fetch
\* and the persist step of a classify_message_by_id call
C30_RowsReferenceStored ==
    \A r \in message_categories :
        /\ messages[r.message_id].exists
        /\ categories_table[r.category_id].exists

=============================================================================
